---- MODULE Spec2Model ----
(***************************************************************************)
(* Model of the snow-patches metadata store and of the download and snow   *)
(* classification workflows (data_handler/models.py, repositories.py,      *)
(* discovery.py, download.py, snow_mask.py).                               *)
(*                                                                         *)
(* The four tables are sets of rows; a row carries its autoincrement id,   *)
(* so a table can hold two rows with the same key unless the constraint    *)
(* check of the insert rejects the second.  Nullable columns hold None     *)
(* (the empty sequence) or Some(v) (a one-element sequence).  Thresholds   *)
(* are in hundredths (40 is 0.40), timestamps are readings of `now`.       *)
(***************************************************************************)
EXTENDS Integers, Sequences, FiniteSets, TLC

VARIABLES
    aois,             \* table aois: rows [id, name]
    products,         \* table sentinel_products: rows [id, product_id, aoi_id, acquisition_dt]
    download_status,  \* table download_status (committed rows)
    snow_masks,       \* table snow_masks (committed rows)
    files,            \* rasters on disk: path -> raster
    now,              \* the latest reading of datetime.utcnow()
    fetches,          \* number of request.get_data() calls issued so far
    pc,               \* position of the workflow call in progress
    call,             \* arguments and locals of the workflow call in progress
    ret,              \* outcome of the last completed call (NoReturn while one is in progress)
    driver            \* locals of the batch driver in progress, or of the last one

vars == <<aois, products, download_status, snow_masks, files, now, fetches, pc, call, ret,
          driver>>

store == <<aois, products, download_status, snow_masks>>

----------------------------------------------------------------------------
(* Bounds of the model *)

MaxTime == 2
MaxFetch == 3
MaxBatch == 2
MaxPixels == 2

(* Inputs *)

AoiNames == {"ben_nevis", "ben_macdui"}
AoiIdInputs == {1, 2}
ProductIds == {"S2A_X", "S2B_Y"}
ProductDbIds == {1, 2, 3}
\* the product_db_id arguments of the workflow calls: a stored scene and an id
\* that is not stored (scene 2 is stored and never passed to a workflow)
CalledIds == {1, 3}
Thresholds == {30, 40}
OutputDir == "data/sentinel2"
MaskDir == "data/snow_masks"

(* The catalog: the acquisition date the provider reports for a product *)
Catalog(product_id) ==
    IF product_id = "S2A_X" THEN [year |-> 2024, month |-> 1]
                            ELSE [year |-> 2023, month |-> 11]

None == <<>>
Some(v) == <<v>>
IsSet(o) == o # <<>>
Get(o) == o[1]

Max(S) == CHOOSE m \in S : \A n \in S : n <= m

\* INTEGER PRIMARY KEY AUTOINCREMENT with no deletes: the next id
NextId(table) == IF table = {} THEN 1 ELSE Max({r.id : r \in table}) + 1

\* what datetime.utcnow() can return: no earlier than its previous reading
Clock == now..MaxTime

----------------------------------------------------------------------------
(* Rasters.  A raster is its band count and its pixels, each pixel the     *)
(* sequence of its band samples (band 1 = B03 green, band 2 = B11 swir).   *)

SnowPx == <<8000, 2000>>
EdgePx == <<7000, 3000>>
BarePx == <<3000, 7000>>

\* what request.get_data() can return as data[0]
FetchData ==
    { [count |-> 2, px |-> <<SnowPx, EdgePx>>],
      [count |-> 1, px |-> <<<<8000>>, <<2000>>>>] }

\* the same request answered with other samples (the provider has
\* reprocessed the tile): the first pixel is bare ground
RefetchData == [count |-> 2, px |-> <<BarePx, EdgePx>>]

----------------------------------------------------------------------------
(* Path management *)

\* the month without zero padding
Pad2_NoPad(n) == ToString(n)

\* strftime("%m"): the month, zero-padded to two digits
Pad2(n) == IF n < 10 THEN "0" \o ToString(n) ELSE ToString(n)

\* base_dir / aoi_name / year / month / "<product_id>.tif"
get_output_path(product_id, aoi_name, acquisition_date, base_dir) ==
    base_dir \o "/" \o aoi_name \o "/" \o ToString(acquisition_date.year)
             \o "/" \o Pad2(acquisition_date.month) \o "/" \o product_id \o ".tif"

\* f"{ndsi_threshold:.1f}" for a threshold given in hundredths (no input is a tie)
ThresholdStr(t) ==
    LET tenths == (t + 5) \div 10
    IN  ToString(tenths \div 10) \o "." \o ToString(tenths % 10)

get_mask_output_path(product_id, aoi_name, acquisition_date, ndsi_threshold, base_dir) ==
    base_dir \o "/" \o aoi_name \o "/" \o ToString(acquisition_date.year)
             \o "/" \o Pad2(acquisition_date.month) \o "/"
             \o product_id \o "_ndsi" \o ThresholdStr(ndsi_threshold) \o ".tif"

\* file_path.stat().st_size of a written raster: its uint16 samples
\* (header and compression are left out)
SizeBytes(raster) == raster.count * Len(raster.px) * 2

\* round(st_size / (1024 * 1024), 2), in hundredths of a megabyte
FileSizeMb(raster) == (SizeBytes(raster) * 100 + 524288) \div 1048576

----------------------------------------------------------------------------
(* Snow classification: the numeric core *)

\* An NDSI value is kept as the exact quotient num / den (den > 0) of the
\* float32 division; thresholds are in hundredths.

\* the subtraction done in the uint16 of the bands, before the conversion
NdsiPx_Uint16(g, s) ==
    IF g + s = 0 THEN [num |-> 0, den |-> 1]
                 ELSE [num |-> (g - s) % 65536, den |-> g + s]

\* One element of calculate_ndsi: (green - swir) / (green + swir + epsilon)
\* on the bands converted to float32.  The epsilon 1e-8 is absorbed by any
\* sum g + s >= 1, and where g = s = 0 the quotient is 0 / epsilon = 0.
NdsiPx(g, s) ==
    IF g + s = 0 THEN [num |-> 0, den |-> 1]
                 ELSE [num |-> g - s, den |-> g + s]

\* calculate_ndsi on two bands of equal shape
calculate_ndsi(band_green, band_swir) ==
    [i \in 1..Len(band_green) |-> NdsiPx(band_green[i], band_swir[i])]

\* ndsi > threshold
Above(n, t) == 100 * n.num > t * n.den

\* the comparison taken as >=
apply_threshold_NonStrict(ndsi, t) ==
    [i \in 1..Len(ndsi) |-> IF 100 * ndsi[i].num >= t * ndsi[i].den THEN 1 ELSE 0]

\* the comparison reversed
apply_threshold_Below(ndsi, t) ==
    [i \in 1..Len(ndsi) |-> IF 100 * ndsi[i].num < t * ndsi[i].den THEN 1 ELSE 0]

\* (ndsi > threshold).astype(uint8)
apply_threshold(ndsi, t) ==
    [i \in 1..Len(ndsi) |-> IF Above(ndsi[i], t) THEN 1 ELSE 0]

\* src.read(k): band k of a raster
Band(raster, k) == [i \in 1..Len(raster.px) |-> raster.px[i][k]]

RECURSIVE SumSeq(_)
SumSeq(s) == IF s = <<>> THEN 0 ELSE s[1] + SumSeq(Tail(s))

\* snow_pct as a fraction of 1, the factor 100 left out
calculate_snow_statistics_Fraction(mask) ==
    LET snow  == SumSeq(mask)
        total == Len(mask)
    IN  [snow_pixels  |-> snow,
         total_pixels |-> total,
         snow_pct     |-> IF total > 0 THEN (snow * 100) \div total ELSE 0]

\* snow_pct is kept in hundredths of a percent
calculate_snow_statistics(mask) ==
    LET snow  == SumSeq(mask)
        total == Len(mask)
    IN  [snow_pixels  |-> snow,
         total_pixels |-> total,
         snow_pct     |-> IF total > 0 THEN (snow * 10000) \div total ELSE 0]

----------------------------------------------------------------------------
(* The metadata store: constraints of models.py, enforced at commit *)

StatusValues == {"pending", "downloaded", "failed", "processing", "processed"}

\* aois.name is unique
AoiInsertOk(name) ==
    \A a \in aois : a.name # name

\* the insert with foreign keys not enforced (SQLite's default)
ProductInsertOk_NoForeignKey(tbl, product_id, aoi_id) ==
    \A r \in tbl : r.product_id # product_id

\* sentinel_products.product_id is unique; aoi_id references aois.id
\* (PRAGMA foreign_keys=ON)
ProductInsertOk(tbl, product_id, aoi_id) ==
    /\ \A r \in tbl : r.product_id # product_id
    /\ \E a \in aois : a.id = aoi_id

\* download_status.product_id is unique and references sentinel_products.id;
\* check_status_valid
StatusInsertOk(product_id, status) ==
    /\ \A d \in download_status : d.product_id # product_id
    /\ \E r \in products : r.id = product_id
    /\ status \in StatusValues

\* the insert without unique_product_threshold
SnowMaskInsertOk_NoUnique(product_id, ndsi_threshold) ==
    \E r \in products : r.id = product_id

\* unique_product_threshold; snow_masks.product_id references sentinel_products.id
SnowMaskInsertOk(product_id, ndsi_threshold) ==
    /\ \A m \in snow_masks :
          ~(m.product_id = product_id /\ m.ndsi_threshold = ndsi_threshold)
    /\ \E r \in products : r.id = product_id

AoiRow(name) == [id |-> NextId(aois), name |-> name]

ProductRow(tbl, product_id, aoi_id) ==
    [id |-> NextId(tbl), product_id |-> product_id, aoi_id |-> aoi_id,
     acquisition_dt |-> Catalog(product_id)]

\* DownloadStatusRepository.create(product_id=..., status=...), the other
\* columns at their defaults; updated_at defaults to utcnow
StatusRow(product_id, status, t) ==
    [id |-> NextId(download_status), product_id |-> product_id, status |-> status,
     local_path |-> None, file_size_mb |-> None, download_start |-> None,
     download_end |-> None, error_msg |-> None, retry_count |-> 0,
     updated_at |-> t]

SnowMaskRow(product_id, ndsi_threshold, stats, mask_path) ==
    [id |-> NextId(snow_masks), product_id |-> product_id,
     ndsi_threshold |-> ndsi_threshold, snow_pixels |-> stats.snow_pixels,
     total_pixels |-> stats.total_pixels, snow_pct |-> stats.snow_pct,
     mask_path |-> mask_path]

\* session.query(...).filter(...).first()
ProductById(id) == {r \in products : r.id = id}
StatusByProduct(tbl, product_id) == {d \in tbl : d.product_id = product_id}
AoiById(id) == {a \in aois : a.id = id}
TheOne(S) == CHOOSE x \in S : TRUE

\* what a completed call returned (ok, err, val) or raised (ok = FALSE, err = the
\* type, raised = TRUE: the exception reached the caller); arg is the key the
\* call was about (for a workflow, product_db_id); fetch tells whether the call
\* issued request.get_data()
Returned(op, arg, ok, err, val) ==
    [op |-> op, arg |-> arg, ok |-> ok, err |-> err, val |-> val,
     fetch |-> FALSE, raised |-> FALSE]

ReturnedAfterFetch(op, arg, ok, err, val) ==
    [Returned(op, arg, ok, err, val) EXCEPT !.fetch = TRUE]

Raised(op, arg, type) ==
    [Returned(op, arg, FALSE, Some(type), None) EXCEPT !.raised = TRUE]

NoReturn == Returned("none", <<>>, TRUE, None, None)

\* no workflow call is in progress
NoCall == [op |-> "none"]

\* no batch driver has been called
NoDriver == [op |-> "none", done |-> TRUE, inner |-> FALSE]

\* the supplied-fields argument of update_status: every parameter defaults to None
NoUpdate ==
    [status |-> None, local_path |-> None, file_size_mb |-> None,
     download_start |-> None, download_end |-> None, error_msg |-> None,
     retry_count |-> None]

\* a body that assigns every parameter, None included
ApplyUpdate_Overwrite(d, upd, t) ==
    [d EXCEPT !.status         = IF IsSet(upd.status) THEN Get(upd.status) ELSE @,
              !.local_path     = upd.local_path,
              !.file_size_mb   = upd.file_size_mb,
              !.download_start = upd.download_start,
              !.download_end   = upd.download_end,
              !.error_msg      = upd.error_msg,
              !.retry_count    = IF IsSet(upd.retry_count) THEN Get(upd.retry_count) ELSE @,
              !.updated_at     = t]

\* the body of update_status on the row it found: only supplied fields are set;
\* the UPDATE, and with it onupdate of updated_at, is emitted only if a column changed
ApplyUpdate(d, upd, t) ==
    LET e == [d EXCEPT
                !.status         = IF IsSet(upd.status) THEN Get(upd.status) ELSE @,
                !.local_path     = IF IsSet(upd.local_path) THEN upd.local_path ELSE @,
                !.file_size_mb   = IF IsSet(upd.file_size_mb) THEN upd.file_size_mb ELSE @,
                !.download_start = IF IsSet(upd.download_start) THEN upd.download_start ELSE @,
                !.download_end   = IF IsSet(upd.download_end) THEN upd.download_end ELSE @,
                !.error_msg      = IF IsSet(upd.error_msg) THEN upd.error_msg ELSE @,
                !.retry_count    = IF IsSet(upd.retry_count) THEN Get(upd.retry_count) ELSE @]
    IN  IF e = d THEN d ELSE [e EXCEPT !.updated_at = t]

\* DownloadStatusRepository.update_status on a table, for an id that exists
update_status(tbl, status_id, upd, t) ==
    {IF d.id = status_id THEN ApplyUpdate(d, upd, t) ELSE d : d \in tbl}

----------------------------------------------------------------------------
\* the store right after init_database: every table is empty
InitStore ==
    /\ aois = {}
    /\ products = {}
    /\ download_status = {}
    /\ snow_masks = {}
    /\ files = <<>>
    /\ now = 0
    /\ fetches = 0
    /\ pc = "idle"
    /\ call = NoCall
    /\ ret = NoReturn
    /\ driver = NoDriver

\* the store after the AOIs are seeded and one product is stored for each.
\* Product 2 has its pending status row (product_repo.create followed by
\* status_repo.create); product 1 has one too, or, stored by
\* save_products_to_db, has none
SeededAois ==
    {[id |-> 1, name |-> "ben_nevis"], [id |-> 2, name |-> "ben_macdui"]}

SeededProducts ==
    {[id |-> 1, product_id |-> "S2A_X", aoi_id |-> 1, acquisition_dt |-> Catalog("S2A_X")],
     [id |-> 2, product_id |-> "S2B_Y", aoi_id |-> 2, acquisition_dt |-> Catalog("S2B_Y")]}

PendingRow(id, product_id) ==
    [id |-> id, product_id |-> product_id, status |-> "pending", local_path |-> None,
     file_size_mb |-> None, download_start |-> None, download_end |-> None,
     error_msg |-> None, retry_count |-> 0, updated_at |-> 0]

SeededStatus == {{PendingRow(1, 2)}, {PendingRow(1, 2), PendingRow(2, 1)}}

Init ==
    /\ aois = SeededAois
    /\ products = SeededProducts
    /\ download_status \in SeededStatus
    /\ snow_masks = {}
    /\ files = <<>>
    /\ now = 0
    /\ fetches = 0
    /\ pc = "idle"
    /\ call = NoCall
    /\ ret = NoReturn
    /\ driver = NoDriver

\* AOIRepository.create
AOICreate(name) ==
    /\ pc = "idle"
    /\ IF AoiInsertOk(name)
         THEN /\ aois' = aois \cup {AoiRow(name)}
              /\ ret' = Returned("AOIRepository.create", <<name>>, TRUE, None,
                                 Some(NextId(aois)))
         ELSE /\ aois' = aois
              /\ ret' = Raised("AOIRepository.create", <<name>>, "IntegrityError")
    /\ UNCHANGED <<products, download_status, snow_masks, files, now, fetches, pc, call>>

\* SentinelProductRepository.create
ProductCreate(product_id, aoi_id) ==
    /\ pc = "idle"
    /\ IF ProductInsertOk(products, product_id, aoi_id)
         THEN /\ products' = products \cup {ProductRow(products, product_id, aoi_id)}
              /\ ret' = Returned("SentinelProductRepository.create",
                                 <<product_id, aoi_id>>, TRUE, None,
                                 Some(NextId(products)))
         ELSE /\ products' = products
              /\ ret' = Raised("SentinelProductRepository.create",
                               <<product_id, aoi_id>>, "IntegrityError")
    /\ UNCHANGED <<aois, download_status, snow_masks, files, now, fetches, pc, call>>

\* DownloadStatusRepository.create(product_id, status='pending')
DownloadStatusCreate(product_id) ==
    /\ pc = "idle"
    /\ IF StatusInsertOk(product_id, "pending")
         THEN /\ download_status' = download_status \cup {StatusRow(product_id, "pending", now)}
              /\ ret' = Returned("DownloadStatusRepository.create", <<product_id>>,
                                 TRUE, None, Some(NextId(download_status)))
         ELSE /\ download_status' = download_status
              /\ ret' = Raised("DownloadStatusRepository.create", <<product_id>>,
                               "IntegrityError")
    /\ UNCHANGED <<aois, products, snow_masks, files, now, fetches, pc, call>>

\* SnowMaskRepository.create
SnowMaskCreate(product_id, ndsi_threshold, stats) ==
    /\ pc = "idle"
    /\ IF SnowMaskInsertOk(product_id, ndsi_threshold)
         THEN /\ snow_masks' = snow_masks \cup
                     {SnowMaskRow(product_id, ndsi_threshold, stats, None)}
              /\ ret' = Returned("SnowMaskRepository.create",
                                 <<product_id, ndsi_threshold>>, TRUE, None,
                                 Some(NextId(snow_masks)))
         ELSE /\ snow_masks' = snow_masks
              /\ ret' = Raised("SnowMaskRepository.create",
                               <<product_id, ndsi_threshold>>, "IntegrityError")
    /\ UNCHANGED <<aois, products, download_status, files, now, fetches, pc, call>>

\* exists() in a session that does not flush before the query: only committed
\* rows are seen
exists_Committed(tbl, product_id) ==
    \E r \in tbl \cap products : r.product_id = product_id

\* SentinelProductRepository.exists: the session autoflushes before the query,
\* so the rows added earlier in the batch are seen
exists(tbl, product_id) ==
    \E r \in tbl : r.product_id = product_id

\* SentinelProductRepository.bulk_create_if_not_exists: the loop over the
\* batch, tbl being the table with the rows added so far
\* an upsert: a product that exists is replaced by the incoming one
RECURSIVE bulk_create_if_not_exists_Upsert(_, _, _, _, _)
bulk_create_if_not_exists_Upsert(tbl, batch, aoi_id, created_count, skipped_count) ==
    IF batch = <<>>
      THEN [tbl |-> tbl, created |-> created_count, skipped |-> skipped_count]
      ELSE IF exists(tbl, Head(batch))
             THEN bulk_create_if_not_exists_Upsert(
                      {IF r.product_id = Head(batch)
                         THEN [r EXCEPT !.aoi_id = aoi_id] ELSE r : r \in tbl},
                      Tail(batch), aoi_id, created_count, skipped_count + 1)
             ELSE bulk_create_if_not_exists_Upsert(
                      tbl \cup {ProductRow(tbl, Head(batch), aoi_id)},
                      Tail(batch), aoi_id, created_count + 1, skipped_count)

RECURSIVE bulk_create_if_not_exists(_, _, _, _, _)
bulk_create_if_not_exists(tbl, batch, aoi_id, created_count, skipped_count) ==
    IF batch = <<>>
      THEN [tbl |-> tbl, created |-> created_count, skipped |-> skipped_count]
      ELSE IF exists(tbl, Head(batch))
             THEN bulk_create_if_not_exists(tbl, Tail(batch), aoi_id,
                                            created_count, skipped_count + 1)
             ELSE bulk_create_if_not_exists(
                      tbl \cup {ProductRow(tbl, Head(batch), aoi_id)},
                      Tail(batch), aoi_id, created_count + 1, skipped_count)

\* discovery.save_products_to_db(session, products_df, aoi_name)
SaveProductsToDb(aoi_name, batch) ==
    /\ pc = "idle"
    /\ LET found == {a \in aois : a.name = aoi_name}
       IN  IF found = {}
             THEN /\ products' = products
                  /\ ret' = Raised("save_products_to_db", aoi_name,
                                   "ValueError")
             ELSE LET res == bulk_create_if_not_exists(products, batch,
                                                       TheOne(found).id, 0, 0)
                  IN  /\ products' = res.tbl
                      /\ ret' = Returned("save_products_to_db", aoi_name,
                                         TRUE, None,
                                         Some(<<res.created, res.skipped>>))
    /\ UNCHANGED <<aois, download_status, snow_masks, files, now, fetches, pc, call>>

Batches == UNION {[1..n -> ProductIds] : n \in 0..MaxBatch}

----------------------------------------------------------------------------
(* download.download_product *)

\* what request.get_data() does: raise, return an empty list, or return data
FetchOutcomes ==
    {[kind |-> "raise"], [kind |-> "empty"]} \cup
    {[kind |-> "data", data |-> r] : r \in FetchData}

\* the message without the exception type
ErrorMsg_NoType(type, message) == message

\* f"{type(e).__name__}: {str(e)}"
ErrorMsg(type, message) == type \o ": " \o message

\* the test of step 2: already downloaded, return the existing path
AlreadyDownloaded(d) ==
    d.status = "downloaded" /\ IsSet(d.local_path)

\* the update of step 6 without the path
DownloadedUpdate_NoPath(file_path, raster, t) ==
    [NoUpdate EXCEPT !.status = Some("downloaded"),
                     !.file_size_mb = Some(FileSizeMb(raster)),
                     !.download_end = Some(t)]

\* the arguments of the update of step 6
DownloadedUpdate(file_path, raster, t) ==
    [NoUpdate EXCEPT !.status = Some("downloaded"),
                     !.local_path = Some(file_path),
                     !.file_size_mb = Some(FileSizeMb(raster)),
                     !.download_end = Some(t)]

\* the except branch setting retry_count to 1 instead of incrementing it
FailedUpdate_ResetRetry(d, error_msg, t) ==
    [NoUpdate EXCEPT !.status = Some("failed"),
                     !.error_msg = Some(error_msg),
                     !.retry_count = Some(1),
                     !.download_end = Some(t)]

\* the arguments of the update of the except branch
FailedUpdate(d, error_msg, t) ==
    [NoUpdate EXCEPT !.status = Some("failed"),
                     !.error_msg = Some(error_msg),
                     !.retry_count = Some(d.retry_count + 1),
                     !.download_end = Some(t)]

\* download_product up to the commit of step 3: configuration, lookup,
\* get-or-create of the status row, short-circuit, download_start
DownloadProduct(product_db_id, has_credentials) ==
    /\ pc = "idle"
    /\ UNCHANGED <<aois, products, snow_masks, files, fetches>>
    /\ IF ~has_credentials
         THEN \* create_sh_config() raises before the try block
              /\ ret' = Raised("download_product", product_db_id, "ValueError")
              /\ UNCHANGED <<download_status, now, pc, call>>
         ELSE IF ProductById(product_db_id) = {}
         THEN /\ ret' = Returned("download_product", product_db_id, FALSE,
                                 Some("Product with ID " \o ToString(product_db_id)
                                      \o " not found in database"), None)
              /\ UNCHANGED <<download_status, now, pc, call>>
         ELSE LET tbl(t) == IF StatusByProduct(download_status, product_db_id) = {}
                              THEN download_status \cup
                                      {StatusRow(product_db_id, "pending", t)}
                              ELSE download_status
                  d      == TheOne(StatusByProduct(tbl(now), product_db_id))
              IN  IF AlreadyDownloaded(d)
                    THEN /\ ret' = Returned("download_product", product_db_id,
                                            TRUE, None, d.local_path)
                         /\ UNCHANGED <<download_status, now, pc, call>>
                    ELSE /\ fetches < MaxFetch
                         /\ now' \in Clock
                         /\ download_status' =
                               update_status(tbl(now'), d.id,
                                   [NoUpdate EXCEPT !.download_start = Some(now')], now')
                         /\ pc' = "fetching"
                         /\ call' = [op |-> "download_product",
                                     product_db_id |-> product_db_id,
                                     status_id |-> d.id]
                         /\ ret' = NoReturn

\* download_product from get_output_path to its return: the fetch, the
\* raster write, the terminal update, or the except branch
DownloadFetch(outcome, write_ok) ==
    /\ pc = "fetching"
    /\ now' \in Clock
    /\ LET product   == TheOne(ProductById(call.product_db_id))
           aoi       == TheOne(AoiById(product.aoi_id))
           d         == TheOne({x \in download_status : x.id = call.status_id})
           file_path == get_output_path(product.product_id, aoi.name,
                                        product.acquisition_dt, OutputDir)
           error_msg ==
               IF outcome.kind = "raise"
                 THEN ErrorMsg("DownloadFailedException", "503 Service Unavailable")
               ELSE IF outcome.kind = "empty"
                 THEN ErrorMsg("DownloadError", "No data returned for product "
                                                \o product.product_id)
                 ELSE ErrorMsg("RasterioIOError", "Permission denied")
       IN  IF outcome.kind = "data" /\ write_ok
             THEN /\ files' = (file_path :> outcome.data) @@ files
                  /\ download_status' =
                        update_status(download_status, d.id,
                                      DownloadedUpdate(file_path, outcome.data, now'), now')
                  /\ ret' = ReturnedAfterFetch("download_product",
                                call.product_db_id, TRUE, None, Some(file_path))
             ELSE /\ files' = files
                  /\ download_status' =
                        update_status(download_status, d.id,
                                      FailedUpdate(d, error_msg, now'), now')
                  /\ ret' = ReturnedAfterFetch("download_product",
                                call.product_db_id, FALSE, Some(error_msg), None)
    /\ fetches' = fetches + 1
    /\ pc' = "idle"
    /\ call' = NoCall
    /\ UNCHANGED <<aois, products, snow_masks>>

----------------------------------------------------------------------------
(* snow_mask.process_product_snow_mask *)

\* the guard testing for a file path instead of the status
ReadyToProcess_HasPath(d) == IsSet(d.local_path)

\* no guard at all
ReadyToProcess_AnyStatus(d) == TRUE

\* the status guard of step 1
ReadyToProcess(d) == d.status = "downloaded"

\* download_status.status = value; session.commit()
SetStatus(tbl, status_id, value, t) ==
    update_status(tbl, status_id, [NoUpdate EXCEPT !.status = Some(value)], t)

\* the single-band uint8 raster save_snow_mask writes
MaskRaster(mask) == [count |-> 1, px |-> [i \in 1..Len(mask) |-> <<mask[i]>>]]

\* process_product_snow_mask up to the commit of step 2
ProcessProductSnowMask(product_db_id, ndsi_threshold, save_mask) ==
    /\ pc = "idle"
    /\ UNCHANGED <<aois, products, snow_masks, files, fetches>>
    /\ LET arg == product_db_id
           ds  == StatusByProduct(download_status, product_db_id)
       IN  IF ProductById(product_db_id) = {}
             THEN /\ ret' = Returned("process_product_snow_mask", arg, FALSE,
                                     Some("Product " \o ToString(product_db_id)
                                          \o " not found"), None)
                  /\ UNCHANGED <<download_status, now, pc, call>>
           ELSE IF ds = {}
             THEN /\ ret' = Returned("process_product_snow_mask", arg, FALSE,
                                     Some("No download status for product "
                                          \o ToString(product_db_id)), None)
                  /\ UNCHANGED <<download_status, now, pc, call>>
           ELSE IF ~ReadyToProcess(TheOne(ds))
             THEN /\ ret' = Returned("process_product_snow_mask", arg, FALSE,
                                     Some("Product not downloaded (status: "
                                          \o TheOne(ds).status \o ")"), None)
                  /\ UNCHANGED <<download_status, now, pc, call>>
             ELSE /\ now' \in Clock
                  /\ download_status' =
                        SetStatus(download_status, TheOne(ds).id, "processing", now')
                  /\ pc' = "processing"
                  /\ call' = [op |-> "process_product_snow_mask",
                              product_db_id |-> product_db_id,
                              ndsi_threshold |-> ndsi_threshold,
                              save_mask |-> save_mask,
                              status_id |-> TheOne(ds).id]
                  /\ ret' = NoReturn

\* process_product_snow_mask from the read of the raster to its return;
\* session.rollback() in the except branches finds nothing uncommitted
ProcessFinish(write_ok) ==
    /\ pc = "processing"
    /\ LET product == TheOne(ProductById(call.product_db_id))
           aoi     == TheOne(AoiById(product.aoi_id))
           d       == TheOne({x \in download_status : x.id = call.status_id})
           arg     == call.product_db_id
           Fail(message) ==
               /\ ret' = Returned("process_product_snow_mask", arg, FALSE,
                                  Some(message), None)
               /\ UNCHANGED <<download_status, snow_masks, now>>
       IN  IF ~IsSet(d.local_path)
             THEN Fail("Processing error: expected str, bytes or os.PathLike object, not NoneType")
                  /\ files' = files
           ELSE IF Get(d.local_path) \notin DOMAIN files
             THEN Fail("File error: GeoTIFF file not found: " \o Get(d.local_path))
                  /\ files' = files
           ELSE IF files[Get(d.local_path)].count < 2
             THEN Fail("Band data error: GeoTIFF must have at least 2 bands, found "
                       \o ToString(files[Get(d.local_path)].count))
                  /\ files' = files
           ELSE LET raster    == files[Get(d.local_path)]
                    ndsi      == calculate_ndsi(Band(raster, 1), Band(raster, 2))
                    snow_mask == apply_threshold(ndsi,
                                                 call.ndsi_threshold)
                    stats     == calculate_snow_statistics(snow_mask)
                    mask_path == IF call.save_mask
                                   THEN Some(get_mask_output_path(product.product_id,
                                            aoi.name, product.acquisition_dt,
                                            call.ndsi_threshold, MaskDir))
                                   ELSE None
                IN  IF call.save_mask /\ ~write_ok
                      THEN Fail("Processing error: Permission denied")
                           /\ files' = files
                      ELSE /\ files' = IF call.save_mask
                                         THEN (Get(mask_path) :> MaskRaster(snow_mask)) @@ files
                                         ELSE files
                           /\ IF ~SnowMaskInsertOk(call.product_db_id, call.ndsi_threshold)
                                THEN Fail("Processing error: UNIQUE constraint failed: snow_masks.product_id, snow_masks.ndsi_threshold")
                                ELSE /\ now' \in Clock
                                     /\ snow_masks' = snow_masks \cup
                                           {SnowMaskRow(call.product_db_id,
                                                call.ndsi_threshold, stats, mask_path)}
                                     /\ download_status' =
                                           SetStatus(download_status, d.id, "processed", now')
                                     /\ ret' = Returned("process_product_snow_mask", arg,
                                           TRUE, None,
                                           Some([product_id |-> product.product_id,
                                                 snow_pct |-> stats.snow_pct,
                                                 snow_pixels |-> stats.snow_pixels,
                                                 total_pixels |-> stats.total_pixels,
                                                 mask_path |-> mask_path]))
    /\ pc' = "idle"
    /\ call' = NoCall
    /\ UNCHANGED <<aois, products, fetches>>

----------------------------------------------------------------------------
(* The environment *)

\* a downloaded raster is removed from disk by something other than the pipeline
RemoveFile(path) ==
    /\ path \in DOMAIN files
    /\ \E d \in download_status : d.local_path = Some(path)
    /\ files' = [q \in DOMAIN files \ {path} |-> files[q]]
    /\ UNCHANGED <<aois, products, download_status, snow_masks, now, fetches, pc, call, ret>>

StatsInputs == {[snow_pixels |-> 1, total_pixels |-> 2, snow_pct |-> 5000]}

\* the store operations, from the empty store
NextStore ==
    \/ \E name \in AoiNames : AOICreate(name)
          /\ UNCHANGED driver
    \/ \E product_id \in ProductIds, aoi_id \in AoiIdInputs :
          ProductCreate(product_id, aoi_id)
          /\ UNCHANGED driver
    \/ \E id \in ProductDbIds : DownloadStatusCreate(id)
          /\ UNCHANGED driver
    \/ \E id \in ProductDbIds, t \in Thresholds, stats \in StatsInputs :
          SnowMaskCreate(id, t, stats)
          /\ UNCHANGED driver
    \/ \E name \in AoiNames, batch \in Batches : SaveProductsToDb(name, batch)
          /\ UNCHANGED driver

SpecStore == InitStore /\ [][NextStore]_vars

\* discovery alone: areas seeded, products stored one by one or in batches
NextDiscovery ==
    \/ \E name \in AoiNames : AOICreate(name)
          /\ UNCHANGED driver
    \/ \E product_id \in ProductIds, aoi_id \in AoiIdInputs :
          ProductCreate(product_id, aoi_id)
          /\ UNCHANGED driver
    \/ \E name \in AoiNames, batch \in Batches : SaveProductsToDb(name, batch)
          /\ UNCHANGED driver

SpecDiscovery == InitStore /\ [][NextDiscovery]_vars

\* the workflows, from the seeded store
Next ==
    \/ \E id \in CalledIds, has_credentials \in BOOLEAN :
          DownloadProduct(id, has_credentials)
          /\ UNCHANGED driver
    \/ \E outcome \in FetchOutcomes, write_ok \in BOOLEAN :
          DownloadFetch(outcome, write_ok)
          /\ UNCHANGED driver
    \/ \E id \in CalledIds, t \in Thresholds, save_mask \in BOOLEAN :
          ProcessProductSnowMask(id, t, save_mask)
          /\ UNCHANGED driver
    \/ \E write_ok \in BOOLEAN : ProcessFinish(write_ok)
          /\ UNCHANGED driver
    \/ \E path \in DOMAIN files : RemoveFile(path)
          /\ UNCHANGED driver

Spec == Init /\ [][Next]_vars

----------------------------------------------------------------------------
(* DownloadStatusRepository.update_status called on the seeded store *)

\* the keyword arguments of the calls: none, a start mark, a success, a failure
UpdateInputs ==
    {NoUpdate,
     [NoUpdate EXCEPT !.download_start = Some(1)],
     [NoUpdate EXCEPT !.status = Some("downloaded"),
                      !.local_path = Some(get_output_path("S2A_X", "ben_nevis",
                                                          Catalog("S2A_X"), OutputDir)),
                      !.file_size_mb = Some(1),
                      !.download_end = Some(2)],
     [NoUpdate EXCEPT !.status = Some("failed"),
                      !.error_msg = Some("DownloadError: No data returned"),
                      !.retry_count = Some(1)]}

\* status ids passed to update_status; 3 is never stored
StatusIdInputs == {1, 2, 3}

\* DownloadStatusRepository.update_status(status_id, **fields)
UpdateStatus(status_id, upd) ==
    /\ pc = "idle"
    /\ IF {d \in download_status : d.id = status_id} = {}
         THEN /\ ret' = Raised("update_status", <<status_id, upd>>, "ValueError")
              /\ UNCHANGED <<download_status, now>>
         ELSE /\ now' \in Clock
              /\ download_status' = update_status(download_status, status_id, upd, now')
              /\ ret' = Returned("update_status", <<status_id, upd>>, TRUE, None,
                                 Some(status_id))
    /\ UNCHANGED <<aois, products, snow_masks, files, fetches, pc, call>>

NextStatus ==
    \E status_id \in StatusIdInputs, upd \in UpdateInputs :
        UpdateStatus(status_id, upd) /\ UNCHANGED driver

SpecStatus == Init /\ [][NextStatus]_vars

----------------------------------------------------------------------------
(* The numeric core applied to a downloaded raster *)

\* band samples (uint16 digital numbers) and the two-band rasters of up to
\* MaxPixels pixels the provider can have returned
BandValues == {0, 3000, 7000}
Rasters ==
    {[count |-> 2, px |-> px] :
        px \in UNION {[1..n -> BandValues \X BandValues] : n \in 0..MaxPixels}}

\* thresholds passed to apply_threshold
ThresholdInputs == {0, 30, 40, 100}

\* scene 1 after a successful download of the given raster
DownloadedRow(raster) ==
    [PendingRow(1, 1) EXCEPT
        !.status = "downloaded",
        !.local_path = Some(get_output_path("S2A_X", "ben_nevis", Catalog("S2A_X"), OutputDir)),
        !.file_size_mb = Some(FileSizeMb(raster)),
        !.download_start = Some(0),
        !.download_end = Some(0)]

InitNumeric ==
    \E raster \in Rasters :
        /\ aois = SeededAois
        /\ products = SeededProducts
        /\ download_status = {DownloadedRow(raster)}
        /\ snow_masks = {}
        /\ files = (Get(DownloadedRow(raster).local_path) :> raster)
        /\ now = 0
        /\ fetches = 1
        /\ pc = "idle"
        /\ call = NoCall
        /\ ret = NoReturn
        /\ driver = NoDriver

\* the raster of scene 1 as read_bands_from_geotiff returns it
TheRaster == files[get_output_path("S2A_X", "ben_nevis", Catalog("S2A_X"), OutputDir)]
TheNdsi == calculate_ndsi(Band(TheRaster, 1), Band(TheRaster, 2))

\* calculate_ndsi(band_green, band_swir) on the bands of the raster
CalculateNdsi ==
    /\ pc = "idle"
    /\ ret' = Returned("calculate_ndsi", <<Band(TheRaster, 1), Band(TheRaster, 2)>>,
                       TRUE, None, Some(TheNdsi))
    /\ UNCHANGED <<aois, products, download_status, snow_masks, files, now, fetches, pc, call>>

\* apply_threshold(ndsi, threshold) on the NDSI of the raster
ApplyThreshold(t) ==
    /\ pc = "idle"
    /\ ret' = Returned("apply_threshold", <<TheNdsi, t>>, TRUE, None,
                       Some(apply_threshold(TheNdsi, t)))
    /\ UNCHANGED <<aois, products, download_status, snow_masks, files, now, fetches, pc, call>>

\* calculate_snow_statistics(snow_mask) on the mask of the raster at threshold t
CalculateSnowStatistics(t) ==
    /\ pc = "idle"
    /\ ret' = Returned("calculate_snow_statistics", <<apply_threshold(TheNdsi, t)>>,
                       TRUE, None,
                       Some(calculate_snow_statistics(apply_threshold(TheNdsi, t))))
    /\ UNCHANGED <<aois, products, download_status, snow_masks, files, now, fetches, pc, call>>

\* thresholds passed to get_mask_output_path, in hundredths
PathThresholds == {30, 40, 42}

\* get_mask_output_path(product_id, aoi_name, acquisition_date, ndsi_threshold)
\* for scene 1 and the default base directory
GetMaskOutputPath(t) ==
    /\ pc = "idle"
    /\ ret' = Returned("get_mask_output_path", <<"S2A_X", "ben_nevis", t>>, TRUE, None,
                       Some(get_mask_output_path("S2A_X", "ben_nevis", Catalog("S2A_X"),
                                                 t, MaskDir)))
    /\ UNCHANGED <<aois, products, download_status, snow_masks, files, now, fetches, pc, call>>

NextNumeric ==
    \/ CalculateNdsi
          /\ UNCHANGED driver
    \/ \E t \in ThresholdInputs : ApplyThreshold(t)
          /\ UNCHANGED driver
    \/ \E t \in ThresholdInputs : CalculateSnowStatistics(t)
          /\ UNCHANGED driver
    \/ \E t \in PathThresholds : GetMaskOutputPath(t)
          /\ UNCHANGED driver
    \/ \E t \in Thresholds, save_mask \in BOOLEAN :
          ProcessProductSnowMask(1, t, save_mask)
          /\ UNCHANGED driver
    \/ \E write_ok \in BOOLEAN : ProcessFinish(write_ok)
          /\ UNCHANGED driver

SpecNumeric == InitNumeric /\ [][NextNumeric]_vars

----------------------------------------------------------------------------
(* The batch drivers download_pending_products and process_downloaded_products *)

\* query(...).all() returns the rows in rowid order
RECURSIVE InIdOrder(_)
InIdOrder(rows) ==
    IF rows = {} THEN <<>>
    ELSE LET first == CHOOSE r \in rows : \A q \in rows : r.id <= q.id
         IN  <<first>> \o InIdOrder(rows \ {first})

\* a query that does not filter by status
get_by_status_All(status) == InIdOrder(download_status)

\* DownloadStatusRepository.get_by_status and get_pending
get_by_status(status) == InIdOrder({d \in download_status : d.status = status})
get_pending == get_by_status("pending")

\* rows[:limit] for limit >= 0
Truncate(rows, limit) ==
    SubSeq(rows, 1, IF limit < Len(rows) THEN limit ELSE Len(rows))

\* the limit argument: None, 0 or 1
LimitInputs == {None, Some(0), Some(1)}

\* the locals of a driver after it has selected its rows
StartDriver(op, args, status, rows) ==
    [op       |-> op,
     args     |-> args,
     at_start |-> {d.product_id : d \in {x \in download_status : x.status = status}},
     selected |-> [i \in 1..Len(rows) |-> rows[i].product_id],
     todo     |-> [i \in 1..Len(rows) |-> rows[i].product_id],
     calls    |-> <<>>,
     success  |-> 0,
     failed   |-> 0,
     skipped  |-> 0,
     inner    |-> FALSE,
     raised   |-> FALSE,
     done     |-> rows = <<>>]

\* one pass of the loop is over: the call for Head(todo) has ended with r
EndOfCall(d, r, success, failed, skipped) ==
    [d EXCEPT !.calls   = Append(@, [product_id |-> Head(d.todo), ok |-> r.ok,
                                      fetch |-> r.fetch]),
              !.todo    = Tail(@),
              !.success = success,
              !.failed  = failed,
              !.skipped = skipped,
              !.inner   = FALSE,
              !.raised  = r.raised,
              !.done    = r.raised \/ Tail(d.todo) = <<>>]

\* the tally of download_pending_products; an exception leaves the driver
TallyDownload(d, r) ==
    IF r.raised THEN EndOfCall(d, r, d.success, d.failed, d.skipped)
    ELSE IF r.ok
      THEN IF r.err = None
             THEN EndOfCall(d, r, d.success + 1, d.failed, d.skipped)
             ELSE EndOfCall(d, r, d.success, d.failed, d.skipped + 1)
      ELSE EndOfCall(d, r, d.success, d.failed + 1, d.skipped)

\* the tally of process_downloaded_products
TallyProcess(d, r) ==
    IF r.ok THEN EndOfCall(d, r, d.success + 1, d.failed, d.skipped)
    ELSE EndOfCall(d, r, d.success, d.failed + 1, d.skipped)

\* the max_retries argument: None or 0
MaxRetriesInputs == {None, Some(0)}

\* a selection that leaves out the rows whose retry_count has reached max_retries
pending_statuses_Enforced(limit, max_retries) ==
    LET kept == SelectSeq(get_pending,
                          LAMBDA d : max_retries = None \/ d.retry_count < Get(max_retries))
    IN  IF limit # None THEN Truncate(kept, Get(limit)) ELSE kept

\* the rows download_pending_products selects: max_retries is not read
pending_statuses(limit, max_retries) ==
    IF limit # None THEN Truncate(get_pending, Get(limit)) ELSE get_pending

\* download_pending_products(session, limit, config, max_retries) up to its
\* loop; without pending rows it returns at once
DownloadPendingProducts(limit, has_credentials, max_retries) ==
    /\ pc = "idle"
    /\ driver.done
    /\ driver' = StartDriver("download_pending_products",
                             [limit |-> limit, has_credentials |-> has_credentials,
                              max_retries |-> max_retries],
                             "pending", pending_statuses(limit, max_retries))
    /\ UNCHANGED <<aois, products, download_status, snow_masks, files, now, fetches,
                   pc, call, ret>>

\* one pass of the loop: download_product for the next selected row, up to its
\* return or to its fetch
DownloadPendingCall ==
    /\ driver.op = "download_pending_products"
    /\ ~driver.done
    /\ ~driver.inner
    /\ DownloadProduct(Head(driver.todo), driver.args.has_credentials)
    /\ driver' = IF pc' = "idle" THEN TallyDownload(driver, ret')
                 ELSE [driver EXCEPT !.inner = TRUE]

\* the rest of that download_product call and the tally of its result
DownloadPendingFetch(outcome, write_ok) ==
    /\ driver.op = "download_pending_products"
    /\ driver.inner
    /\ DownloadFetch(outcome, write_ok)
    /\ driver' = TallyDownload(driver, ret')

\* process_downloaded_products(session, ndsi_threshold, save_masks, limit) up
\* to its loop; "if limit:" is false for None and for 0
ProcessDownloadedProducts(ndsi_threshold, save_masks, limit) ==
    /\ pc = "idle"
    /\ driver.done
    /\ LET downloaded ==
               IF limit # None /\ Get(limit) # 0
                 THEN Truncate(get_by_status("downloaded"), Get(limit))
                 ELSE get_by_status("downloaded")
       IN  driver' = StartDriver("process_downloaded_products",
                                 [limit |-> limit, ndsi_threshold |-> ndsi_threshold,
                                  save_masks |-> save_masks],
                                 "downloaded", downloaded)
    /\ UNCHANGED <<aois, products, download_status, snow_masks, files, now, fetches,
                   pc, call, ret>>

\* one pass of the loop: process_product_snow_mask for the next selected row
ProcessDownloadedCall ==
    /\ driver.op = "process_downloaded_products"
    /\ ~driver.done
    /\ ~driver.inner
    /\ ProcessProductSnowMask(Head(driver.todo), driver.args.ndsi_threshold,
                              driver.args.save_masks)
    /\ driver' = IF pc' = "idle" THEN TallyProcess(driver, ret')
                 ELSE [driver EXCEPT !.inner = TRUE]

\* the rest of that process_product_snow_mask call and the tally of its result
ProcessDownloadedFinish(write_ok) ==
    /\ driver.op = "process_downloaded_products"
    /\ driver.inner
    /\ ProcessFinish(write_ok)
    /\ driver' = TallyProcess(driver, ret')

\* a second client of the same database calls download_product between two
\* passes of a driver's loop
OtherDownloadProduct(id) ==
    /\ ~driver.inner
    /\ DownloadProduct(id, TRUE)
    /\ UNCHANGED driver

OtherDownloadFetch(outcome, write_ok) ==
    /\ ~driver.inner
    /\ DownloadFetch(outcome, write_ok)
    /\ UNCHANGED driver

\* what the provider answers while a driver runs: an error, or either raster
DriverOutcomes ==
    {[kind |-> "raise"]} \cup {[kind |-> "data", data |-> r] : r \in FetchData}

\* the drivers are followed at one reading of the clock: the timestamps take no
\* part in the selection or in the tally
NextBatch ==
    \/ \E limit \in LimitInputs, has_credentials \in BOOLEAN,
          max_retries \in MaxRetriesInputs :
          DownloadPendingProducts(limit, has_credentials, max_retries)
    \/ now' = now /\ DownloadPendingCall
    \/ \E outcome \in DriverOutcomes :
          now' = now /\ DownloadPendingFetch(outcome, TRUE)
    \/ \E t \in Thresholds, save_masks \in BOOLEAN, limit \in LimitInputs :
          ProcessDownloadedProducts(t, save_masks, limit)
    \/ now' = now /\ ProcessDownloadedCall
    \/ \E write_ok \in BOOLEAN : now' = now /\ ProcessDownloadedFinish(write_ok)
    \/ now' = now /\ OtherDownloadProduct(1)
    \/ \E outcome \in DriverOutcomes :
          now' = now /\ OtherDownloadFetch(outcome, TRUE)

SpecBatch == Init /\ [][NextBatch]_vars

----------------------------------------------------------------------------
(* Discovery, download, classification and the two drivers on one store *)

\* the store with the AOIs and one scene, stored with its pending status row
\* (product_repo.create followed by status_repo.create); the other scene is
\* still to be discovered
InitPipeline ==
    /\ aois = SeededAois
    /\ products = {r \in SeededProducts : r.id = 1}
    /\ download_status = {PendingRow(1, 1)}
    /\ snow_masks = {}
    /\ files = <<>>
    /\ now = 0
    /\ fetches = 0
    /\ pc = "idle"
    /\ call = NoCall
    /\ ret = NoReturn
    /\ driver = NoDriver

\* the scenes the single-scene calls are made for
PipelineIds == {1, 2}

\* the catalog results saved here: one scene at a time, stored or new
PipelineBatches == {<<product_id>> : product_id \in ProductIds}

\* what the provider answers: an error, the two-band raster, or the raster
\* of the reprocessed tile
PipelineOutcomes ==
    {[kind |-> "raise"],
     [kind |-> "data", data |-> [count |-> 2, px |-> <<SnowPx, EdgePx>>]],
     [kind |-> "data", data |-> RefetchData]}

\* discovery, single downloads and the two drivers, at one reading of the
\* clock, with credentials and a writable disk; the drivers take no limit
NextPipeline ==
    \/ \E name \in AoiNames, batch \in PipelineBatches :
          ~driver.inner /\ SaveProductsToDb(name, batch) /\ UNCHANGED driver
    \/ \E id \in PipelineIds :
          now' = now /\ OtherDownloadProduct(id)
    \/ \E outcome \in PipelineOutcomes :
          now' = now /\ OtherDownloadFetch(outcome, TRUE)
    \/ DownloadPendingProducts(None, TRUE, None)
    \/ now' = now /\ DownloadPendingCall
    \/ \E outcome \in PipelineOutcomes :
          now' = now /\ DownloadPendingFetch(outcome, TRUE)
    \/ \E t \in Thresholds : ProcessDownloadedProducts(t, TRUE, None)
    \/ now' = now /\ ProcessDownloadedCall
    \/ now' = now /\ ProcessDownloadedFinish(TRUE)

SpecPipeline == InitPipeline /\ [][NextPipeline]_vars

----------------------------------------------------------------------------
(* Properties *)

HasRow(product_db_id) == StatusByProduct(download_status, product_db_id) # {}
Row(product_db_id) == TheOne(StatusByProduct(download_status, product_db_id))
RowAfter(status_id) == TheOne({x \in download_status' : x.id = status_id})

\* the raster path of each seeded product, written out
ExpectedPath(product_db_id) ==
    IF product_db_id = 1 THEN "data/sentinel2/ben_nevis/2024/01/S2A_X.tif"
                         ELSE "data/sentinel2/ben_macdui/2023/11/S2B_Y.tif"

\* C1: download_product on a scene whose row has status = downloaded and a
\* local_path returns (True, None, that path), starts no fetch, and leaves
\* every row of download_status (and the rest of the store and the files) as
\* it was; this for every call, whether or not a configuration is supplied.
C1_IdempotentRedownload ==
    [][\A id \in CalledIds, has_credentials \in BOOLEAN :
          ( /\ pc = "idle"
            /\ HasRow(id)
            /\ Row(id).status = "downloaded"
            /\ IsSet(Row(id).local_path)
            /\ \/ (ret' # ret /\ ret'.op = "download_product" /\ ret'.arg = id)
               \/ pc' = "fetching"
            /\ DownloadProduct(id, has_credentials) )
          => /\ ret' = Returned("download_product", id, TRUE, None, Row(id).local_path)
             /\ ~ret'.fetch
             /\ pc' = "idle"
             /\ fetches' = fetches
             /\ UNCHANGED <<aois, products, download_status, snow_masks, files>>]_vars

\* the message each failing fetch outcome is recorded with, written out
ExpectedError(outcome, product_db_id) ==
    IF outcome.kind = "raise"
      THEN "DownloadFailedException: 503 Service Unavailable"
    ELSE IF outcome.kind = "empty"
      THEN (IF product_db_id = 1 THEN "DownloadError: No data returned for product S2A_X"
                                 ELSE "DownloadError: No data returned for product S2B_Y")
      ELSE "RasterioIOError: Permission denied"

\* C2: when the fetch raises, returns no data, or the raster write raises,
\* download_product commits status = failed, error_msg = "<type>: <message>",
\* retry_count one higher than before and download_end = the time read, and returns
\* (False, that message, None).
C2_FailureBookkeeping ==
    [][\A outcome \in FetchOutcomes, write_ok \in BOOLEAN :
          ( /\ pc = "fetching"
            /\ (outcome.kind # "data" \/ ~write_ok)
            /\ DownloadFetch(outcome, write_ok) )
          => LET before == TheOne({x \in download_status : x.id = call.status_id})
                 after  == RowAfter(call.status_id)
                 msg    == ExpectedError(outcome, call.product_db_id)
             IN  /\ after.status = "failed"
                 /\ after.error_msg = Some(msg)
                 /\ after.retry_count = before.retry_count + 1
                 /\ after.download_end = Some(now')
                 /\ ret' = ReturnedAfterFetch("download_product", call.product_db_id,
                                              FALSE, Some(msg), None)
                 /\ pc' = "idle"]_vars

\* a failed attempt has been recorded and returned as an error string
C2_Witness ==
    /\ pc = "idle"
    /\ ret.op = "download_product"
    /\ ~ret.ok
    /\ ret.fetch
    /\ HasRow(ret.arg)
    /\ Row(ret.arg).status = "failed"
    /\ Row(ret.arg).error_msg = ret.err
    /\ Row(ret.arg).retry_count >= 1

\* C3: when the fetch returns data and the raster is written, download_product
\* started from pending or failed commits status = downloaded, local_path =
\* {output_dir}/{aoi name}/{YYYY}/{MM}/{product_id}.tif, file_size_mb,
\* download_start <= download_end, and returns (True, None, that path); the
\* raster is on disk at that path.
C3_SuccessPostcondition ==
    [][\A outcome \in FetchOutcomes :
          ( /\ pc = "fetching"
            /\ outcome.kind = "data"
            /\ TheOne({x \in download_status : x.id = call.status_id}).status
                  \in {"pending", "failed"}
            /\ DownloadFetch(outcome, TRUE) )
          => LET after == RowAfter(call.status_id)
                 path  == ExpectedPath(call.product_db_id)
             IN  /\ after.status = "downloaded"
                 /\ after.local_path = Some(path)
                 /\ IsSet(after.file_size_mb)
                 /\ IsSet(after.download_start)
                 /\ IsSet(after.download_end)
                 /\ Get(after.download_end) >= Get(after.download_start)
                 /\ path \in DOMAIN files'
                 /\ files'[path] = outcome.data
                 /\ ret' = ReturnedAfterFetch("download_product", call.product_db_id,
                                              TRUE, None, Some(path))]_vars

\* a retry of a failed scene has succeeded, some time after it started
C3_Witness ==
    /\ pc = "idle"
    /\ ret.op = "download_product"
    /\ ret.ok
    /\ ret.fetch
    /\ HasRow(ret.arg)
    /\ Row(ret.arg).status = "downloaded"
    /\ Row(ret.arg).retry_count = 1
    /\ Row(ret.arg).download_start = Some(0)
    /\ Row(ret.arg).download_end = Some(1)

\* C4: process_product_snow_mask on a scene whose row has a status other than
\* downloaded returns (False, message, None) for every threshold and save_mask,
\* and changes no row of download_status or snow_masks and no file.
C4_LifecycleGuard ==
    [][\A id \in CalledIds, t \in Thresholds, save_mask \in BOOLEAN :
          ( /\ pc = "idle"
            /\ HasRow(id)
            /\ Row(id).status # "downloaded"
            /\ \/ (ret' # ret /\ ret'.op = "process_product_snow_mask" /\ ret'.arg = id)
               \/ pc' = "processing"
            /\ ProcessProductSnowMask(id, t, save_mask) )
          => /\ ret'.op = "process_product_snow_mask"
             /\ ret'.arg = id
             /\ ~ret'.ok
             /\ IsSet(ret'.err)
             /\ ret'.val = None
             /\ pc' = "idle"
             /\ UNCHANGED <<download_status, snow_masks, files>>]_vars

\* an already processed scene has been rejected by the guard
C4_Witness ==
    /\ pc = "idle"
    /\ ret.op = "process_product_snow_mask"
    /\ ~ret.ok
    /\ ret.err = Some("Product not downloaded (status: processed)")
    /\ HasRow(ret.arg)
    /\ Row(ret.arg).status = "processed"

\* the raster of the call in progress cannot be read: no path, no file, or
\* fewer than two bands
ReadFails ==
    LET d == TheOne({x \in download_status : x.id = call.status_id})
    IN  \/ ~IsSet(d.local_path)
        \/ Get(d.local_path) \notin DOMAIN files
        \/ files[Get(d.local_path)].count < 2

\* C5: if reading the raster fails, process_product_snow_mask returns
\* (False, message, None), creates no SnowMask, and the row is left with
\* status downloaded, not processing.
C5_ReadFailureKeepsDownloaded ==
    [][\A write_ok \in BOOLEAN :
          (pc = "processing" /\ ReadFails /\ ProcessFinish(write_ok))
          => /\ ~ret'.ok
             /\ ret'.val = None
             /\ snow_masks' = snow_masks
             /\ RowAfter(call.status_id).status = "downloaded"]_vars

UniqueError ==
    "Processing error: UNIQUE constraint failed: snow_masks.product_id, snow_masks.ndsi_threshold"

\* C6: if a SnowMask for (scene, threshold) exists when a downloaded scene is
\* processed at that threshold, the call returns failure, snow_masks is left
\* as it was (no second record, the existing one untouched) and the status
\* does not become processed.
C6_DuplicateMaskRejected ==
    [][\A write_ok \in BOOLEAN :
          ( /\ pc = "processing"
            /\ \E m \in snow_masks : /\ m.product_id = call.product_db_id
                                     /\ m.ndsi_threshold = call.ndsi_threshold
            /\ ProcessFinish(write_ok) )
          => /\ ~ret'.ok
             /\ ret'.val = None
             /\ snow_masks' = snow_masks
             /\ RowAfter(call.status_id).status # "processed"]_vars

\* a second classification at a used threshold has been rejected by the store
C6_Witness ==
    /\ pc = "idle"
    /\ ret.op = "process_product_snow_mask"
    /\ ~ret.ok
    /\ ret.err = Some(UniqueError)
    /\ Cardinality({m \in snow_masks : m.product_id = ret.arg}) = 1
    /\ Row(ret.arg).status # "processed"

KeysUnique ==
    /\ \A a, b \in aois : (a.name = b.name \/ a.id = b.id) => a = b
    /\ \A a, b \in products : (a.product_id = b.product_id \/ a.id = b.id) => a = b
    /\ \A a, b \in download_status : (a.product_id = b.product_id \/ a.id = b.id) => a = b
    /\ \A a, b \in snow_masks :
          ( \/ (a.product_id = b.product_id /\ a.ndsi_threshold = b.ndsi_threshold)
            \/ a.id = b.id ) => a = b

ParentsExist ==
    /\ \A r \in products : \E a \in aois : a.id = r.aoi_id
    /\ \A d \in download_status : \E r \in products : r.id = d.product_id
    /\ \A m \in snow_masks : \E r \in products : r.id = m.product_id

Rejected ==
    /\ ~ret'.ok
    /\ ret'.err = Some("IntegrityError")
    /\ UNCHANGED <<aois, products, download_status, snow_masks>>

CreateStep ==
    /\ ret'.op = "AOIRepository.create" =>
          \A name \in AoiNames :
             (AOICreate(name) /\ \E a \in aois : a.name = name) => Rejected
    /\ ret'.op = "SentinelProductRepository.create" =>
          \A product_id \in ProductIds, aoi_id \in AoiIdInputs :
             ( /\ ProductCreate(product_id, aoi_id)
               /\ \/ \E r \in products : r.product_id = product_id
                  \/ ~\E a \in aois : a.id = aoi_id ) => Rejected
    /\ ret'.op = "DownloadStatusRepository.create" =>
          \A id \in ProductDbIds :
             ( /\ DownloadStatusCreate(id)
               /\ \/ \E d \in download_status : d.product_id = id
                  \/ ~\E r \in products : r.id = id ) => Rejected
    /\ ret'.op = "SnowMaskRepository.create" =>
          \A id \in ProductDbIds, t \in Thresholds, stats \in StatsInputs :
             /\ ( /\ SnowMaskCreate(id, t, stats)
                  /\ \/ \E m \in snow_masks : m.product_id = id /\ m.ndsi_threshold = t
                     \/ ~\E r \in products : r.id = id ) => Rejected
             /\ ( /\ SnowMaskCreate(id, t, stats)
                  /\ \E r \in products : r.id = id
                  /\ ~\E m \in snow_masks : m.product_id = id /\ m.ndsi_threshold = t )
                => /\ ret'.ok
                   /\ snow_masks \subseteq snow_masks'
                   /\ Cardinality(snow_masks') = Cardinality(snow_masks) + 1
                   /\ \E m \in snow_masks' : m.product_id = id /\ m.ndsi_threshold = t

\* C7: a create that would duplicate a unique key (AOI name, product_id, the
\* status row of a product, SnowMask (product, threshold)) or that references
\* a missing parent raises and leaves the store unchanged; a SnowMask at a
\* threshold not yet used for the product is accepted; in every state each
\* key identifies at most one row and every reference has its parent.
C7_KeyConstraints ==
    [](KeysUnique /\ ParentsExist) /\ [][CreateStep]_vars

\* a duplicate SnowMask was rejected while the product has masks at two thresholds
C7_Witness ==
    /\ ret.op = "SnowMaskRepository.create"
    /\ ~ret.ok
    /\ \E m1, m2 \in snow_masks : /\ m1.product_id = m2.product_id
                                  /\ m1.ndsi_threshold # m2.ndsi_threshold
                                  /\ m1.product_id = ret.arg[1]

\* C8 as stated: local_path is non-null exactly when status is downloaded or
\* processed.
C8_LocalPathIffDownloadedOrProcessed ==
    \A d \in download_status :
        IsSet(d.local_path) <=> d.status \in {"downloaded", "processed"}

\* C8 amended: local_path is non-null whenever status is downloaded,
\* processing or processed, and null whenever status is pending (a failed row
\* has a path exactly if the scene had been downloaded before).
C8_LocalPathAmended ==
    \A d \in download_status :
        /\ d.status \in {"downloaded", "processing", "processed"} => IsSet(d.local_path)
        /\ d.status = "pending" => ~IsSet(d.local_path)

\* a failed classification has returned and left the row processing, path set
C8_Witness ==
    /\ pc = "idle"
    /\ \E d \in download_status : d.status = "processing" /\ IsSet(d.local_path)

\* C9: retry_count never decreases; a download attempt that fails adds exactly
\* 1; every other step (successful and short-circuited downloads, processing
\* calls) leaves it unchanged; a new row starts at 0.
C9_RetryCountMonotone ==
    [][ /\ \A d \in download_status :
              LET after == RowAfter(d.id)
              IN  /\ after.retry_count >= d.retry_count
                  /\ IF pc = "fetching" /\ pc' = "idle" /\ call.status_id = d.id /\ ~ret'.ok
                       THEN after.retry_count = d.retry_count + 1
                       ELSE after.retry_count = d.retry_count
        /\ \A a \in download_status' :
              (~\E d \in download_status : d.id = a.id) => a.retry_count = 0 ]_vars

\* two attempts on one scene have failed
C9_Witness ==
    /\ pc = "idle"
    /\ \E d \in download_status : d.status = "failed" /\ d.retry_count = 2

\* C10: every product stored by save_products_to_db has, as soon as it is
\* stored, exactly one download_status row, with status pending.
C10_OneStatusPerDiscoveredScene ==
    [][\A name \in AoiNames, batch \in Batches :
          (ret'.op = "save_products_to_db" /\ SaveProductsToDb(name, batch))
          => \A r \in products' \ products :
                /\ Cardinality(StatusByProduct(download_status', r.id)) = 1
                /\ \A d \in StatusByProduct(download_status', r.id) :
                      d.status = "pending"]_vars

\* C11: download_product and process_product_snow_mask never raise: every
\* completed call has returned a tuple, and a failure is (False, message, None).
C11_NoExceptionEscapes ==
    ret.op \in {"download_product", "process_product_snow_mask"}
       => /\ ~ret.raised
          /\ ~ret.ok => (IsSet(ret.err) /\ ret.val = None)

\* C17: apply_threshold marks a pixel 1 exactly when its NDSI is strictly
\* greater than the threshold; a pixel exactly at the threshold is 0, and every
\* value of the mask is 0 or 1.
C17_ThresholdStrict ==
    ret.op = "apply_threshold" =>
        LET ndsi == ret.arg[1]
            t    == ret.arg[2]
            mask == Get(ret.val)
        IN  /\ Len(mask) = Len(ndsi)
            /\ \A i \in DOMAIN mask :
                 /\ mask[i] \in {0, 1}
                 /\ mask[i] = 1 <=> 100 * ndsi[i].num > t * ndsi[i].den
                 /\ 100 * ndsi[i].num = t * ndsi[i].den => mask[i] = 0

\* a mask with a pixel exactly at the threshold and a pixel above it
C17_Witness ==
    /\ ret.op = "apply_threshold"
    /\ \E i, j \in DOMAIN Get(ret.val) :
         /\ 100 * ret.arg[1][i].num = ret.arg[2] * ret.arg[1][i].den
         /\ Get(ret.val)[i] = 0
         /\ Get(ret.val)[j] = 1

\* the relations between the three statistics (snow_pct in hundredths of a percent)
StatsConsistent(snow_pixels, total_pixels, snow_pct) ==
    /\ 0 <= snow_pixels
    /\ snow_pixels <= total_pixels
    /\ snow_pct = IF total_pixels = 0 THEN 0
                  ELSE (100 * 100 * snow_pixels) \div total_pixels

\* C18: calculate_snow_statistics returns snow_pixels = the number of 1-pixels,
\* total_pixels = the size of the mask, 0 <= snow_pixels <= total_pixels and
\* snow_pct = 100 * snow_pixels / total_pixels (0 for the empty mask); every
\* stored SnowMask record satisfies the same relations for the raster it was
\* computed from.
C18_StatisticsConsistent ==
    /\ ret.op = "calculate_snow_statistics" =>
          LET mask  == ret.arg[1]
              stats == Get(ret.val)
          IN  /\ stats.snow_pixels = Cardinality({i \in DOMAIN mask : mask[i] = 1})
              /\ stats.total_pixels = Len(mask)
              /\ StatsConsistent(stats.snow_pixels, stats.total_pixels, stats.snow_pct)
    /\ \A m \in snow_masks :
          /\ m.total_pixels = Len(TheRaster.px)
          /\ m.snow_pixels =
                Cardinality({i \in DOMAIN TheRaster.px :
                    100 * (TheRaster.px[i][1] - TheRaster.px[i][2])
                        > m.ndsi_threshold * (TheRaster.px[i][1] + TheRaster.px[i][2])})
          /\ StatsConsistent(m.snow_pixels, m.total_pixels, m.snow_pct)

\* a partly snow-covered mask: statistics returned for it and a record stored for it
C18_Witness ==
    /\ ret.op = "calculate_snow_statistics"
    /\ Get(ret.val).snow_pixels > 0
    /\ Get(ret.val).snow_pixels < Get(ret.val).total_pixels
    /\ \E m \in snow_masks : m.snow_pixels > 0 /\ m.snow_pixels < m.total_pixels

\* C19: every value calculate_ndsi returns for non-negative bands of equal
\* shape lies in [-1, 1], and where both bands are 0 the value is 0.
C19_NdsiRange ==
    ret.op = "calculate_ndsi" =>
        LET band_green == ret.arg[1]
            band_swir  == ret.arg[2]
            ndsi       == Get(ret.val)
        IN  /\ Len(ndsi) = Len(band_green)
            /\ \A i \in DOMAIN ndsi :
                 /\ ndsi[i].den > 0
                 /\ -ndsi[i].den <= ndsi[i].num
                 /\ ndsi[i].num <= ndsi[i].den
                 /\ (band_green[i] = 0 /\ band_swir[i] = 0) => ndsi[i].num = 0

\* bands with a pixel where both are 0 and a pixel where swir exceeds green
C19_Witness ==
    /\ ret.op = "calculate_ndsi"
    /\ \E i, j \in DOMAIN Get(ret.val) :
         /\ ret.arg[1][i] = 0 /\ ret.arg[2][i] = 0
         /\ ret.arg[1][j] < ret.arg[2][j]

\* C20: for the same bands and thresholds t1 <= t2, every pixel that is snow at
\* t2 is snow at t1, so snow_pixels and snow_pct at t1 are at least those at t2.
C20_ThresholdMonotone ==
    ret.op = "apply_threshold" =>
        LET ndsi == ret.arg[1]
            t2   == ret.arg[2]
            at2  == Get(ret.val)
        IN  \A t1 \in ThresholdInputs :
              t1 <= t2 =>
                LET at1 == apply_threshold(ndsi, t1)
                IN  /\ \A i \in DOMAIN at2 : at2[i] = 1 => at1[i] = 1
                    /\ calculate_snow_statistics(at1).snow_pixels
                          >= calculate_snow_statistics(at2).snow_pixels
                    /\ calculate_snow_statistics(at1).snow_pct
                          >= calculate_snow_statistics(at2).snow_pct

\* a pixel that is snow at a lower threshold and not at the one applied
C20_Witness ==
    /\ ret.op = "apply_threshold"
    /\ \E t1 \in ThresholdInputs, i \in DOMAIN Get(ret.val) :
         /\ t1 < ret.arg[2]
         /\ Get(ret.val)[i] = 0
         /\ apply_threshold(ret.arg[1], t1)[i] = 1

\* C15: for any batch, also one that repeats a product_id, the bulk insert of
\* save_products_to_db raises nothing, returns (created, skipped) with
\* created + skipped = the batch length and created = the number of distinct
\* product_ids not stored before, leaves the stored products unchanged, and the
\* table then holds the union of the previous and the batch product_ids, each once.
C15_BulkUpsert ==
    [][\A name \in AoiNames, batch \in Batches :
          (/\ ret'.op = "save_products_to_db"
           /\ \E a \in aois : a.name = name
           /\ SaveProductsToDb(name, batch))
          => LET before  == {r.product_id : r \in products}
                 inbatch == {batch[i] : i \in DOMAIN batch}
                 after   == {r.product_id : r \in products'}
             IN  /\ ~ret'.raised
                 /\ ret'.ok
                 /\ Get(ret'.val)[1] + Get(ret'.val)[2] = Len(batch)
                 /\ Get(ret'.val)[1] = Cardinality(inbatch \ before)
                 /\ products \subseteq products'
                 /\ after = before \cup inbatch
                 /\ Cardinality(products') = Cardinality(after)]_vars

\* a batch that names the same new product twice: one row created, one skipped,
\* and the table holds that product once
C15_Witness ==
    /\ ret.op = "save_products_to_db"
    /\ ret.ok
    /\ Get(ret.val) = <<1, 1>>
    /\ Cardinality(products) = 1

\* C16: download_product and process_product_snow_mask called for a scene that
\* does not exist, or that has no download_status row, return failure at once:
\* no fetch is started and no row of any table is created or changed.
C16_NotFoundLeavesStoreUntouched ==
    [][\A id \in CalledIds :
          ( /\ pc = "idle"
            /\ (ProductById(id) = {} \/ ~HasRow(id))
            /\ \/ /\ ret' # ret
                  /\ ret'.op \in {"download_product", "process_product_snow_mask"}
                  /\ ret'.arg = id
               \/ /\ pc' # "idle"
                  /\ call'.product_db_id = id )
          => /\ pc' = "idle"
             /\ ~ret'.ok
             /\ fetches' = fetches
             /\ UNCHANGED <<aois, products, download_status, snow_masks, files>>]_vars

\* the calls a driver has made, and how they ended
CallIds(d) == [i \in 1..Len(d.calls) |-> d.calls[i].product_id]
NumOk(d) == Cardinality({i \in DOMAIN d.calls : d.calls[i].ok})
NumFailed(d) == Cardinality({i \in DOMAIN d.calls : ~d.calls[i].ok})
NumShortCircuit(d) ==
    Cardinality({i \in DOMAIN d.calls : d.calls[i].ok /\ ~d.calls[i].fetch})
NumFetched(d) ==
    Cardinality({i \in DOMAIN d.calls : d.calls[i].ok /\ d.calls[i].fetch})

\* one call for each selected row and for no other; the selected rows had the
\* status asked for when the driver started, and without a limit they are all
\* of those rows
OneCallPerSelectedRow(d) ==
    /\ CallIds(d) = d.selected
    /\ Cardinality({d.selected[i] : i \in DOMAIN d.selected}) = Len(d.selected)
    /\ {d.selected[i] : i \in DOMAIN d.selected} \subseteq d.at_start
    /\ d.args.limit = None => {d.selected[i] : i \in DOMAIN d.selected} = d.at_start

\* C12: download_pending_products calls download_product exactly once for each
\* row that is pending when it starts and for no other row, and returns
\* success = the calls that reported success, failed = the calls that reported
\* failure, success + failed + skipped = the number of rows selected.
C12_DownloadBatchTally ==
    (driver.op = "download_pending_products" /\ driver.done)
       => /\ ~driver.raised
          /\ OneCallPerSelectedRow(driver)
          /\ driver.success = NumOk(driver)
          /\ driver.failed = NumFailed(driver)
          /\ driver.success + driver.failed + driver.skipped = Len(driver.selected)

\* C13: in the result of download_pending_products every call that took the
\* already-downloaded short-circuit is counted under skipped, not under success.
C13_SkippedMeansShortCircuit ==
    (driver.op = "download_pending_products" /\ driver.done /\ ~driver.raised)
       => /\ driver.skipped = NumShortCircuit(driver)
          /\ driver.success = NumFetched(driver)

\* C14: process_downloaded_products calls process_product_snow_mask exactly
\* once for each row that is downloaded when it starts and for no other row,
\* returns success and failed = the calls that reported success and failure,
\* and skipped = 0.
C14_ProcessBatchTally ==
    (driver.op = "process_downloaded_products" /\ driver.done)
       => /\ ~driver.raised
          /\ OneCallPerSelectedRow(driver)
          /\ driver.success = NumOk(driver)
          /\ driver.failed = NumFailed(driver)
          /\ driver.skipped = 0

\* two downloaded scenes processed in one batch, one classified and one failed
C14_Witness ==
    /\ driver.op = "process_downloaded_products"
    /\ driver.done
    /\ Len(driver.calls) = 2
    /\ driver.success = 1
    /\ driver.failed = 1

\* C21: for a fixed scene, AOI, date and base directory get_mask_output_path
\* maps different thresholds to different paths.
C21_MaskPathPerThreshold ==
    ret.op = "get_mask_output_path" =>
        \A t \in PathThresholds :
            t # ret.arg[3] =>
                get_mask_output_path(ret.arg[1], ret.arg[2], Catalog(ret.arg[1]), t, MaskDir)
                    # Get(ret.val)

\* the parameters of update_status, and the value a supplied one gives its field
UpdateFields ==
    {"status", "local_path", "file_size_mb", "download_start", "download_end",
     "error_msg", "retry_count"}
SuppliedValue(upd, f) == IF f \in {"status", "retry_count"} THEN Get(upd[f]) ELSE upd[f]

\* the step is a call of update_status that found its row
UpdateStep == ret' # ret /\ ret'.op = "update_status" /\ ~ret'.raised

\* the supplied fields of the row take the supplied values, its other
\* parameters' fields keep theirs, and every other row is unchanged
SuppliedFieldsOnly ==
    \A d \in download_status :
        \E e \in download_status' :
            /\ e.id = d.id
            /\ e.product_id = d.product_id
            /\ d.id # ret'.arg[1] => e = d
            /\ d.id = ret'.arg[1] =>
                  \A f \in UpdateFields :
                      e[f] = IF IsSet(ret'.arg[2][f]) THEN SuppliedValue(ret'.arg[2], f)
                             ELSE d[f]

\* C22 as stated: update_status changes exactly the supplied fields and leaves
\* every other field of the row, updated_at included, and every other row
\* unchanged; for an id that does not exist it raises and changes nothing.
C22_PartialUpdateFrame ==
    [][/\ UpdateStep =>
            /\ Cardinality(download_status') = Cardinality(download_status)
            /\ SuppliedFieldsOnly
            /\ \A d \in download_status : \A e \in download_status' :
                  e.id = d.id => e.updated_at = d.updated_at
       /\ (ret' # ret /\ ret'.op = "update_status" /\ ret'.raised) =>
            UNCHANGED <<aois, products, download_status, snow_masks>>]_vars

\* C22 amended: as above, except that updated_at of the updated row becomes the
\* time of the update when a supplied value changed a column.
C22_PartialUpdateAmended ==
    [][/\ UpdateStep =>
            /\ Cardinality(download_status') = Cardinality(download_status)
            /\ SuppliedFieldsOnly
            /\ \A d \in download_status : \A e \in download_status' :
                  e.id = d.id =>
                      e.updated_at =
                          IF \E f \in UpdateFields : e[f] # d[f] THEN now'
                          ELSE d.updated_at
       /\ (ret' # ret /\ ret'.op = "update_status" /\ ret'.raised) =>
            UNCHANGED <<aois, products, download_status, snow_masks>>]_vars

\* a failure recorded on a row that keeps the path of its earlier download
C22_Witness ==
    /\ ret.op = "update_status"
    /\ ret.ok
    /\ IsSet(ret.arg[2].error_msg)
    /\ ~IsSet(ret.arg[2].local_path)
    /\ \E d \in download_status :
         /\ d.id = ret.arg[1]
         /\ IsSet(d.local_path)
         /\ d.status = "failed"

\* C23: a driver called with a limit L >= 0 invokes the per-scene workflow on
\* exactly min(L, number of matching rows) rows, and without a limit on all
\* matching rows; this holds for both drivers.
C23_BatchLimit ==
    (driver.op # "none" /\ driver.done /\ ~driver.raised)
       => LET matching == Cardinality(driver.at_start)
              limit    == driver.args.limit
          IN  Len(driver.calls) =
                 IF limit = None THEN matching
                 ELSE IF Get(limit) < matching THEN Get(limit) ELSE matching

\* C24: what download_pending_products selects does not depend on max_retries:
\* started from the same store with another max_retries it has the same locals,
\* and a driver that returns has attempted every row it selected, none being
\* left out for a retry_count at or above max_retries.
C24_MaxRetriesIgnored ==
    [][/\ (driver' # driver /\ driver.done /\ driver'.op = "download_pending_products")
            => \A max_retries \in MaxRetriesInputs :
                  /\ pending_statuses(driver'.args.limit, max_retries)
                        = pending_statuses(driver'.args.limit, driver'.args.max_retries)
                  /\ driver'.selected =
                        [i \in 1..Len(pending_statuses(driver'.args.limit, max_retries)) |->
                            pending_statuses(driver'.args.limit, max_retries)[i].product_id]
                  /\ driver'.args.limit = None =>
                        {driver'.selected[i] : i \in DOMAIN driver'.selected}
                           = {d.product_id : d \in {x \in download_status :
                                                       x.status = "pending"}}
       /\ (driver'.op = "download_pending_products" /\ driver'.done /\ ~driver'.raised)
            => CallIds(driver') = driver'.selected]_vars

\* a driver called with max_retries = 0 has downloaded a row whose retry_count is 0
C24_Witness ==
    /\ driver.op = "download_pending_products"
    /\ driver.args.max_retries = Some(0)
    /\ driver.done
    /\ driver.success > 0
    /\ \E d \in download_status :
         d.status = "downloaded" /\ d.retry_count = 0 /\ d.product_id \in driver.at_start

\* C25: a row becomes processing only from downloaded, and processed only from
\* processing and together with (never before) the SnowMask record of that
\* call; so every row with status processed has a SnowMask record of its scene.
C25_ProcessingOrder ==
    [][/\ \A d \in download_status : \A e \in download_status' :
             e.id = d.id =>
               /\ (e.status = "processing" /\ d.status # "processing")
                     => d.status = "downloaded"
               /\ (e.status = "processed" /\ d.status # "processed")
                     => /\ d.status = "processing"
                        /\ pc = "processing"
                        /\ \E m \in snow_masks' \ snow_masks :
                              /\ m.product_id = d.product_id
                              /\ m.ndsi_threshold = call.ndsi_threshold
       /\ \A e \in download_status' :
             e.status = "processed"
               => \E m \in snow_masks' : m.product_id = e.product_id]_vars

\* a scene classified by a successful call: processed, with its SnowMask record
C25_Witness ==
    /\ ret.op = "process_product_snow_mask"
    /\ ret.ok
    /\ \E d \in download_status :
         /\ d.product_id = ret.arg
         /\ d.status = "processed"
         /\ \E m \in snow_masks : m.product_id = d.product_id

\* C26: between the commit of download_start and the terminal update of one
\* download_product attempt, the persisted row of the scene has status pending
\* and download_start set, on a first attempt and on a retry of a failed scene.
C26_InFlightPending ==
    (pc = "fetching") =>
        \A d \in download_status :
            d.id = call.status_id =>
                /\ d.status = "pending"
                /\ IsSet(d.download_start)

\* C27: no discovery, download, classification or driver step modifies or
\* deletes a stored scene or SnowMask record: every record of either table is
\* in the table after the step with all its fields, and no other record of
\* the table takes its id.
C27_ScenesAndMasksImmutable ==
    [][/\ \A r \in products :
             /\ r \in products'
             /\ \A q \in products' : q.id = r.id => q = r
       /\ \A m \in snow_masks :
             /\ m \in snow_masks'
             /\ \A q \in snow_masks' : q.id = m.id => q = m]_vars

\* discovery has just met a stored scene again while a mask of a scene is
\* stored, and a further scene and a further mask have been created since
C27_Witness ==
    /\ ret.op = "save_products_to_db"
    /\ ret.ok
    /\ Get(ret.val)[2] > 0
    /\ Cardinality(products) = 2
    /\ Cardinality(snow_masks) >= 2
    /\ \E d \in download_status : d.status = "processed"

\* C28: when process_product_snow_mask with save_mask = True is rejected
\* because a SnowMask of the scene at that threshold is stored, the step
\* writes nothing to the file at that record's mask_path.
C28_RejectedDuplicateKeepsFile ==
    [][(/\ pc = "processing"
        /\ call.save_mask
        /\ ret'.op = "process_product_snow_mask"
        /\ ~ret'.ok)
       => \A m \in snow_masks :
             (/\ m.product_id = call.product_db_id
              /\ m.ndsi_threshold = call.ndsi_threshold
              /\ IsSet(m.mask_path)
              /\ Get(m.mask_path) \in DOMAIN files)
             => /\ Get(m.mask_path) \in DOMAIN files'
                /\ files'[Get(m.mask_path)] = files[Get(m.mask_path)]]_vars

\* C29: a scene left in status failed is attempted again by a later
\* download_pending_products call: the rows a call without limit selects
\* include every failed scene.
C29_FailedRetriedByBatch ==
    [][(/\ driver.done
        /\ driver' # driver
        /\ driver'.op = "download_pending_products"
        /\ driver'.args.limit = None)
       => \A d \in download_status :
             d.status = "failed"
               => \E i \in DOMAIN driver'.selected :
                     driver'.selected[i] = d.product_id]_vars

\* C30: a scene whose status is processing or processed is never moved back
\* to downloaded or failed, and download_product starts no fetch for it.
C30_StatusNeverRegresses ==
    [][\A d \in download_status :
          d.status \in {"processing", "processed"}
            => /\ \A e \in download_status' :
                     e.id = d.id => e.status \notin {"downloaded", "failed"}
               /\ ~(/\ pc = "idle"
                    /\ pc' = "fetching"
                    /\ call'.status_id = d.id)]_vars
====
